---------------------------- MODULE Spec2Model ----------------------------
(***************************************************************************)
(* Encryption configuration sequencer (apply_encryption) and key check    *)
(* (apply_key) of the apsw / SQLite3 Multiple Ciphers test suite, driven   *)
(* against an abstract database engine: pragmas that echo, a keyed file,   *)
(* single-writer locking, and transactions; and the permutation generator  *)
(* and driver of the soak test (mcall.py).                                 *)
(***************************************************************************)
EXTENDS Integers, Sequences, FiniteSets, TLC

VARIABLES
    request,    \* the keyword arguments of the calls: <<name, value>> pairs in insertion order
    file,       \* the database file: empty, or written under a key and cipher configuration
    uv,         \* the stored user_version (the canary setting)
    data,       \* the stored table content
    xlock,      \* the connection holding the write lock, or NoOne
    shared,     \* the connections holding a read lock
    hkey,       \* per connection: the key material it was given
    hcfg,       \* per connection: its cipher configuration
    intxn,      \* per connection: db.in_transaction
    readonly,   \* per connection: opened read-only
    call,       \* the running or last finished call
    log,        \* the engine calls the current call has made, in order
    budget,     \* calls and session steps still allowed
    hist,       \* the finished calls and what happened between them
    library,    \* the SQLite library the connections use implements encryption
    gen,        \* two runs of the permutations() generator
    run         \* the soak-test driver run()

vars == <<request, file, uv, data, xlock, shared, hkey, hcfg, intxn, readonly,
          call, log, budget, hist, library, gen, run>>

--------------------------------------------------------------------------
(* Bounds *)

MaxOpts == 4

MaxCalls == 2

MaxSteps == 2

--------------------------------------------------------------------------
(* Values: Python ints and strings, and str() of them *)

IntVal(n) == [isInt |-> TRUE, i |-> n, s |-> ""]

StrVal(x) == [isInt |-> FALSE, i |-> 0, s |-> x]

Digits == <<"0", "1", "2", "3", "4", "5", "6", "7", "8", "9">>

RECURSIVE NatStr(_)
NatStr(n) == IF n < 10 THEN Digits[n + 1]
             ELSE NatStr(n \div 10) \o Digits[(n % 10) + 1]

Str(v) == IF v.isInt
          THEN (IF v.i < 0 THEN "-" \o NatStr(0 - v.i) ELSE NatStr(v.i))
          ELSE v.s

UpperAlpha == "ABCDEFGHIJKLMNOPQRSTUVWXYZ"

LowerAlpha == "abcdefghijklmnopqrstuvwxyz"

\* str.lower() of one character
UpperToLower ==
    [c \in {SubSeq(UpperAlpha, i, i) : i \in 1..Len(UpperAlpha)} |->
       LET i == CHOOSE j \in 1..Len(UpperAlpha) : SubSeq(UpperAlpha, j, j) = c
       IN SubSeq(LowerAlpha, i, i)]

LowerChar(c) == IF c \in DOMAIN UpperToLower THEN UpperToLower[c] ELSE c

RECURSIVE Lower(_)
Lower(s) == IF Len(s) = 0 THEN ""
            ELSE LowerChar(SubSeq(s, 1, 1)) \o Lower(SubSeq(s, 2, Len(s)))

\* Python's `sub in s` on strings
Contains(sub, s) ==
    \E i \in 1..(Len(s) - Len(sub) + 1) : SubSeq(s, i, i + Len(sub) - 1) = sub

--------------------------------------------------------------------------
(* apply_encryption: the ordering of the pragmas *)

KeyNames == {"key", "hexkey", "rekey", "hexrekey"}

\* the names compared as written, not lowered
pragma_order_cased(item) ==
    LET pragma == item[1] IN
    IF pragma = "cipher" THEN 1
    ELSE IF pragma = "legacy" THEN 2
    ELSE IF Contains("legacy", pragma) THEN 3
    ELSE IF pragma \notin KeyNames THEN 3
    ELSE 100

pragma_order(item) ==
    LET pragma == Lower(item[1]) IN
    IF pragma = "cipher" THEN 1
    ELSE IF pragma = "legacy" THEN 2
    ELSE IF Contains("legacy", pragma) THEN 3
    ELSE IF pragma \notin KeyNames THEN 3
    ELSE 100

KeyCount(kwargs) ==
    Cardinality({i \in 1..Len(kwargs) : pragma_order(kwargs[i]) = 100})

\* insert index i after every index whose rank is not greater: a stable sort
RECURSIVE InsertByRank(_, _, _)
InsertByRank(i, sorted, rank) ==
    IF sorted = <<>> THEN <<i>>
    ELSE IF rank[Head(sorted)] <= rank[i]
         THEN <<Head(sorted)>> \o InsertByRank(i, Tail(sorted), rank)
         ELSE <<i>> \o sorted

RECURSIVE SortIndices(_, _)
SortIndices(n, rank) ==
    IF n = 0 THEN <<>> ELSE InsertByRank(n, SortIndices(n - 1, rank), rank)

\* the items in insertion order
SortedItemsUnsorted(kwargs) == kwargs

\* sorted(kwargs.items(), key=pragma_order): the key is computed once per item
SortedItems(kwargs) ==
    LET rank == [i \in 1..Len(kwargs) |-> pragma_order(kwargs[i])]
        order == SortIndices(Len(kwargs), rank)
    IN [k \in 1..Len(kwargs) |-> kwargs[order[k]]]

\* every echo expected to be the value, the key directive's too
ExpectedStr(item) == Str(item[2])

Expected(item) == IF pragma_order(item) = 100 THEN "ok" ELSE Str(item[2])

--------------------------------------------------------------------------
(* The cipher table: what parameters each cipher supports, a set of values *)
(* or an inclusive range                                                   *)

OneOf(S) == [isSet |-> TRUE, vals |-> S, lo |-> 0, hi |-> 0]

Range(a, b) == [isSet |-> FALSE, vals |-> {}, lo |-> a, hi |-> b]

PageSizes == {2^i : i \in 9..16}

ciphers ==
    [c \in {"aes128cbc", "aes256cbc", "chacha20", "sqlcipher", "rc4", "ascon128"} |->
       CASE c = "aes128cbc" ->
              [p \in {"legacy", "legacy_page_size"} |->
                 IF p = "legacy" THEN OneOf({0, 1}) ELSE OneOf(PageSizes)]
         [] c \in {"aes256cbc", "chacha20"} ->
              [p \in {"kdf_iter", "legacy", "legacy_page_size"} |->
                 CASE p = "kdf_iter" -> Range(1, 10000)
                   [] p = "legacy" -> OneOf({0, 1})
                   [] OTHER -> OneOf(PageSizes)]
         [] c = "sqlcipher" ->
              [p \in {"kdf_iter", "fast_kdf_iter", "hmac_use", "hmac_pgno",
                      "hmac_salt_mask", "legacy", "legacy_page_size",
                      "kdf_algorithm", "hmac_algorithm", "plaintext_header_size"} |->
                 CASE p = "kdf_iter" -> Range(1, 10000)
                   [] p = "fast_kdf_iter" -> Range(1, 100)
                   [] p = "hmac_use" -> OneOf({0, 1})
                   [] p = "hmac_pgno" -> OneOf({0, 1, 2})
                   [] p = "hmac_salt_mask" -> Range(0, 256)
                   [] p = "legacy" -> Range(0, 4)
                   [] p = "legacy_page_size" -> OneOf(PageSizes)
                   [] p = "kdf_algorithm" -> Range(0, 2)
                   [] p = "hmac_algorithm" -> Range(0, 2)
                   [] OTHER -> OneOf({0, 16, 32, 48, 64, 80, 96})]
         [] c = "rc4" ->
              [p \in {"legacy", "legacy_page_size"} |->
                 IF p = "legacy" THEN OneOf({1}) ELSE OneOf(PageSizes)]
         [] OTHER ->
              [p \in {"kdf_iter"} |-> Range(1, 10000)]]

all_params == UNION {DOMAIN ciphers[c] : c \in DOMAIN ciphers}

InDomain(valid, n) == IF valid.isSet THEN n \in valid.vals
                      ELSE valid.lo <= n /\ n <= valid.hi

--------------------------------------------------------------------------
(* The engine: connections, the keyed file, locks *)

Handles == {"db", "con2"}

NoOne == "none"

\* key material: what `key` / `hexkey` carry
Material(name, value) ==
    [hex |-> Contains("hex", Lower(name)), text |-> Str(value)]

NoKey == [hex |-> FALSE, text |-> ""]

\* the cipher a connection uses when none was selected
DefaultCipher == "chacha20"

Settings == {"cipher"} \cup all_params

NoCfg == [p \in Settings |-> ""]

EffCipher(cfg) == IF cfg["cipher"] = "" THEN DefaultCipher ELSE cfg["cipher"]

\* what a file written by this connection is encrypted under
Codec(key, cfg) ==
    [empty |-> FALSE, key |-> key, cfg |-> [cfg EXCEPT !["cipher"] = EffCipher(cfg)]]

EmptyFile == [empty |-> TRUE, key |-> NoKey, cfg |-> NoCfg]

\* the file's header validates under the connection's key and cipher
Readable(f, key, cfg) ==
    \/ f.empty
    \/ /\ f.key = key
       /\ (key = NoKey \/ f.cfg = Codec(key, cfg).cfg)

\* another connection holds the write lock
Locked(h) == xlock \notin {NoOne, h}

\* the echo of a setting the engine did not take
Rejected == "Invalid"

Echo(e, key, cfg) == [raise |-> "", echo |-> e, key |-> key, cfg |-> cfg]

Raise(kind, key, cfg) == [raise |-> kind, echo |-> "", key |-> key, cfg |-> cfg]

\* db.pragma(name, value) for the settings of a connection: the echo or the
\* exception, and the connection's key and configuration afterwards
Pragma(name, value, key, cfg) ==
    LET pragma == Lower(name) IN
    IF pragma \in {"key", "hexkey"}
    THEN Echo("ok", Material(name, value), cfg)
    ELSE IF pragma = "cipher"
    THEN IF ~value.isInt /\ value.s \in DOMAIN ciphers
         THEN Echo(value.s, key, [NoCfg EXCEPT !["cipher"] = value.s])
         ELSE Raise("SQLError", key, cfg)
    ELSE IF /\ pragma \in DOMAIN ciphers[EffCipher(cfg)]
            /\ value.isInt
            /\ InDomain(ciphers[EffCipher(cfg)][pragma], value.i)
    THEN IF pragma = "legacy"
         \* the old default settings reset the cipher's other parameters
         THEN Echo(Str(value), key,
                   [[NoCfg EXCEPT !["cipher"] = cfg["cipher"]] EXCEPT !["legacy"] = Str(value)])
         ELSE Echo(Str(value), key, [cfg EXCEPT ![pragma] = Str(value)])
    ELSE Echo(Rejected, key, cfg)

\* what db.pragma returns for a pragma the library does not know
NoEcho == "None"

\* db.pragma(name, value) on the library in use: one built without
\* encryption knows none of the settings
Engine(name, value, key, cfg) ==
    IF library THEN Pragma(name, value, key, cfg) ELSE Echo(NoEcho, key, cfg)

\* db.pragma("user_version"): "" or the exception
ReadFails(h) ==
    IF Locked(h) THEN "Busy"
    ELSE IF ~Readable(file, hkey[h], hcfg[h]) THEN "NotADB"
    ELSE ""

\* db.pragma("user_version", v) and any other write: "" or the exception
WriteFails(h) ==
    IF Locked(h) THEN "Busy"
    ELSE IF ~Readable(file, hkey[h], hcfg[h]) THEN "NotADB"
    ELSE IF readonly[h] THEN "ReadOnly"
    ELSE ""

\* the file after a write through the connection: an empty file is populated
\* under the connection's key and cipher
Written(h) == IF file.empty THEN Codec(hkey[h], hcfg[h]) ELSE file

--------------------------------------------------------------------------
(* The requests the calls are made with *)

Pool ==
    { <<"cipher", StrVal("aes256cbc")>>,
      <<"cipher", StrVal("hello world")>>,
      <<"legacy", IntVal(1)>>,
      <<"Legacy_Page_Size", IntVal(16384)>>,
      <<"kdf_iter", IntVal(99)>>,
      <<"kdf_iter", IntVal(0 - 7)>>,
      <<"key", StrVal("A")>>,
      <<"KeY", StrVal("A")>>,
      <<"hexkey", StrVal("0B")>> }

\* a dict: no name twice
IsDict(r) == \A i, j \in 1..Len(r) : i # j => r[i][1] # r[j][1]

Requests == {r \in UNION {[1..n -> Pool] : n \in 0..MaxOpts} : IsDict(r)}

\* the databases a call can meet: a new one, one written without a key, one
\* written under key "A" with the default cipher
InitFiles == {EmptyFile, Codec(NoKey, NoCfg), Codec(Material("key", StrVal("A")), NoCfg)}

Idle == [h |-> NoOne, pc |-> "idle", todo |-> <<>>, result |-> "", failed |-> "",
         tmp |-> 0, uv0 |-> 0, intxn0 |-> FALSE, locked0 |-> FALSE, since |-> 0,
         op |-> "", key |-> "", nkey |-> 0, retries |-> 0]

NoCall == [h |-> NoOne, result |-> "", uv0 |-> 0, uv1 |-> 0, locked0 |-> FALSE,
           before |-> <<>>, during |-> <<>>, op |-> "", key |-> ""]

\* no generator and no driver running
NoGen == <<>>

NoRun == <<>>

NoHistory == [prev |-> NoCall, last |-> NoCall, steps |-> <<>>]

\* one engine call: what was asked, and the echo or the exception that came back
Pragmad(item, r) ==
    [op |-> "pragma", name |-> item[1], value |-> item[2], echo |-> r.echo, raise |-> r.raise]

Entry(op, name, raise) ==
    [op |-> op, name |-> name, value |-> IntVal(0), echo |-> "", raise |-> raise]

Done(result, failed) == [call EXCEPT !.pc = "done", !.result = result, !.failed = failed]

Running == call.pc \notin {"idle", "done"}

\* what every finished call leaves in the history
FinishAs(op, key, h, result, u0, u1) ==
    LET since == IF Running THEN call.since ELSE Len(hist.steps) IN
    hist' = [prev |-> hist.last,
             last |-> [h |-> h, result |-> result, uv0 |-> u0, uv1 |-> u1,
                       locked0 |-> IF Running THEN call.locked0 ELSE Locked(h),
                       before |-> SubSeq(hist.steps, 1, since),
                       during |-> SubSeq(hist.steps, since + 1, Len(hist.steps)),
                       op |-> op, key |-> key],
             steps |-> <<>>]

Finish(h, result, u0, u1) == FinishAs("apply_encryption", "", h, result, u0, u1)

--------------------------------------------------------------------------
(* apply_encryption(db, **kwargs), one engine call per step *)

\* the transaction check left out
InTransactionNever(h) == FALSE

\* db.in_transaction
InTransaction(h) == intxn[h]

\* the checks before the first pragma, and the sort
Start(h) ==
    /\ ~Running
    /\ budget.calls > 0
    /\ budget' = [budget EXCEPT !.calls = @ - 1]
    /\ log' = <<>>
    /\ LET c == [Idle EXCEPT !.op = "apply_encryption", !.h = h, !.uv0 = uv, !.intxn0 = intxn[h],
                              !.locked0 = Locked(h), !.since = Len(hist.steps)] IN
       IF InTransaction(h)
       THEN /\ call' = [c EXCEPT !.pc = "done", !.result = "InTransaction"]
            /\ Finish(h, "InTransaction", uv, uv)
       ELSE IF KeyCount(request) # 1
       THEN /\ call' = [c EXCEPT !.pc = "done", !.result = "ExactlyOneKey"]
            /\ Finish(h, "ExactlyOneKey", uv, uv)
       ELSE /\ call' = [c EXCEPT !.pc = "options", !.todo = SortedItems(request)]
            /\ UNCHANGED hist
    /\ UNCHANGED <<library, gen, run, request, file, uv, data, xlock, shared, hkey, hcfg, intxn, readonly>>

\* the connection given back its fresh settings when the call raises
AtRaiseReset(r) == [r EXCEPT !.key = NoKey, !.cfg = NoCfg]

\* raise ValueError(...): the connection keeps what the pragmas so far made of it
AtRaise(r) == r

\* the loop body: db.pragma(pragma, value) != expected
ApplyOption ==
    /\ call.pc = "options"
    /\ LET h == call.h
           item == Head(call.todo)
           r == Engine(item[1], item[2], hkey[h], hcfg[h])
           left == IF r.raise # "" \/ r.echo # Expected(item) THEN AtRaise(r) ELSE r
       IN
       /\ hkey' = [hkey EXCEPT ![h] = left.key]
       /\ hcfg' = [hcfg EXCEPT ![h] = left.cfg]
       /\ IF r.raise # ""
          THEN /\ log' = Append(log, Pragmad(item, r))
               /\ call' = Done(r.raise, item[1])
               /\ Finish(h, r.raise, call.uv0, uv)
          ELSE IF r.echo # Expected(item)
          THEN /\ log' = Append(log, Pragmad(item, r))
               /\ call' = Done("FailedToConfigure", item[1])
               /\ Finish(h, "FailedToConfigure", call.uv0, uv)
          ELSE /\ log' = Append(log, Pragmad(item, r))
               /\ call' = [call EXCEPT !.todo = Tail(@),
                                       !.pc = IF Tail(call.todo) = <<>> THEN "canary" ELSE "options"]
               /\ UNCHANGED hist
    /\ UNCHANGED <<library, gen, run, request, file, uv, data, xlock, shared, intxn, readonly, budget>>

\* the canary read left out
CanaryReadSkipped ==
    /\ call.pc = "canary"
    /\ call' = [call EXCEPT !.pc = "txn_read"]
    /\ UNCHANGED <<library, gen, run, request, file, uv, data, xlock, shared, hkey, hcfg, intxn, readonly,
                   budget, log, hist>>

\* db.pragma("user_version") before the transaction
CanaryRead ==
    /\ call.pc = "canary"
    /\ LET e == ReadFails(call.h) IN
       /\ log' = Append(log, Entry("read", "user_version", e))
       /\ IF e # ""
          THEN call' = Done(e, "") /\ Finish(call.h, e, call.uv0, uv)
          ELSE call' = [call EXCEPT !.pc = "txn_read"] /\ UNCHANGED hist
    /\ UNCHANGED <<library, gen, run, request, file, uv, data, xlock, shared, hkey, hcfg, intxn, readonly, budget>>

\* every exception of the try block passed over
CaughtAny(e) == "ok"

\* no exception of the try block passed over
CaughtNone(e) == e

\* how the try block ends on an exception: ReadOnlyError is passed over
Caught(e) == IF e = "ReadOnly" THEN "ok" ELSE e

\* the read inside the transaction takes no lock
ReadLockNone(h) == {}

\* the read lock a transaction holds from its first read to its end
ReadLock(h) == {h}

\* with db: ... db.pragma("user_version") inside the transaction
TxnRead ==
    /\ call.pc = "txn_read"
    /\ LET h == call.h
           e == ReadFails(h)
       IN
       IF e # ""
       THEN \* the transaction is entered and rolled back
            /\ log' = log \o <<Entry("begin", "", ""), Entry("read", "user_version", e),
                               Entry("rollback", "", "")>>
            /\ call' = Done(Caught(e), "")
            /\ Finish(h, Caught(e), call.uv0, uv)
            /\ UNCHANGED <<intxn, shared>>
       ELSE /\ log' = log \o <<Entry("begin", "", ""), Entry("read", "user_version", "")>>
            /\ call' = [call EXCEPT !.pc = "txn_write", !.tmp = uv]
            /\ intxn' = [intxn EXCEPT ![h] = TRUE]
            /\ shared' = shared \cup ReadLock(h)
            /\ UNCHANGED hist
    /\ UNCHANGED <<library, gen, run, request, file, uv, data, xlock, hkey, hcfg, readonly, budget>>

\* the canary set to a fixed value
WriteBackZero(v) == 0

\* the value the canary is set to: the one just read
WriteBack(v) == v

\* the transaction left open when the with block is left by an exception
RollbackLeftOpen(h) == intxn

\* the with block left by an exception: the transaction is rolled back
Rollback(h) == [intxn EXCEPT ![h] = FALSE]

\* db.pragma("user_version", <the value read>) inside the transaction
TxnWrite ==
    /\ call.pc = "txn_write"
    /\ LET h == call.h
           e == WriteFails(h)
       IN
       IF e # ""
       THEN /\ log' = log \o <<Entry("write", "user_version", e), Entry("rollback", "", "")>>
            /\ call' = Done(Caught(e), "")
            /\ Finish(h, Caught(e), call.uv0, uv)
            /\ intxn' = Rollback(h)
            /\ shared' = shared \ {h}
            /\ UNCHANGED <<file, uv, xlock>>
       ELSE /\ log' = Append(log, Entry("write", "user_version", ""))
            /\ call' = [call EXCEPT !.pc = "txn_commit"]
            /\ uv' = WriteBack(call.tmp)
            /\ file' = Written(h)
            /\ xlock' = h
            /\ UNCHANGED <<intxn, shared, hist>>
    /\ UNCHANGED <<library, gen, run, request, data, hkey, hcfg, readonly, budget>>

\* leaving the with block: the transaction commits
TxnCommit ==
    /\ call.pc = "txn_commit"
    /\ LET h == call.h IN
       /\ log' = Append(log, Entry("commit", "", ""))
       /\ call' = Done("ok", "")
       /\ Finish(h, "ok", call.uv0, uv)
       /\ intxn' = [intxn EXCEPT ![h] = FALSE]
       /\ shared' = shared \ {h}
       /\ xlock' = NoOne
    /\ UNCHANGED <<library, gen, run, request, file, uv, data, hkey, hcfg, readonly, budget>>

--------------------------------------------------------------------------
(* One call on one connection, from every request and every state of the  *)
(* database                                                               *)

Init ==
    /\ request \in Requests
    /\ file \in InitFiles
    /\ uv = 0
    /\ data = 0
    /\ xlock = NoOne
    /\ shared = {}
    /\ hkey = [h \in Handles |-> NoKey]
    /\ hcfg = [h \in Handles |-> NoCfg]
    /\ \E b \in BOOLEAN : intxn = [h \in Handles |-> h = "db" /\ b]
    /\ \E b \in BOOLEAN : readonly = [h \in Handles |-> h = "db" /\ b]
    /\ call = Idle
    /\ log = <<>>
    /\ budget = [calls |-> 1, steps |-> 0]
    /\ hist = NoHistory
    /\ library = TRUE
    /\ gen = NoGen
    /\ run = NoRun

Next ==
    \/ Start("db")
    \/ ApplyOption
    \/ CanaryRead
    \/ TxnRead
    \/ TxnWrite
    \/ TxnCommit

Spec == Init /\ [][Next]_vars

--------------------------------------------------------------------------
(* Two connections to one database: calls on either, and between and      *)
(* during them the statements the tests run on the connections             *)

Step(h, op, v) == [h |-> h, op |-> op, v |-> v]

Stepped(h, op, v) ==
    /\ budget.steps > 0
    /\ budget' = [budget EXCEPT !.steps = @ - 1]
    /\ hist' = [hist EXCEPT !.steps = Append(@, Step(h, op, v))]

\* the connection is not inside a call
Free(h) == ~(Running /\ call.h = h)

\* db.execute("begin exclusive")
BeginExclusive(h) ==
    /\ Free(h)
    /\ ~intxn[h]
    /\ xlock = NoOne
    /\ shared \ {h} = {}
    /\ Stepped(h, "begin", 0)
    /\ xlock' = h
    /\ intxn' = [intxn EXCEPT ![h] = TRUE]
    /\ UNCHANGED <<library, gen, run, request, file, uv, data, shared, hkey, hcfg, readonly, call, log>>

\* db.execute("end")
EndTxn(h) ==
    /\ Free(h)
    /\ intxn[h]
    /\ Stepped(h, "end", 0)
    /\ xlock' = IF xlock = h THEN NoOne ELSE xlock
    /\ intxn' = [intxn EXCEPT ![h] = FALSE]
    /\ UNCHANGED <<library, gen, run, request, file, uv, data, shared, hkey, hcfg, readonly, call, log>>

\* db.execute("create table x(y); insert into x values(...)")
WriteData(h) ==
    /\ Free(h)
    /\ WriteFails(h) = ""
    /\ shared \ {h} = {}
    /\ Stepped(h, "write", data + 1)
    /\ data' = data + 1
    /\ file' = Written(h)
    /\ UNCHANGED <<library, gen, run, request, uv, xlock, shared, hkey, hcfg, intxn, readonly, call, log>>

\* db.pragma("user_version", v) from a session of its own
SetUserVersion(h, v) ==
    /\ Free(h)
    /\ v # uv
    /\ WriteFails(h) = ""
    /\ shared \ {h} = {}
    /\ Stepped(h, "user_version", v)
    /\ uv' = v
    /\ file' = Written(h)
    /\ UNCHANGED <<library, gen, run, request, data, xlock, shared, hkey, hcfg, intxn, readonly, call, log>>

\* con2.pragma(k): the setting read back
PragmaGet(h, name) == hcfg[h][Lower(name)]

\* con2.execute("select length(y) from x").get
ReadData(h) == IF ReadFails(h) = "" THEN data ELSE 0 - 1

SessionRequests ==
    { <<  <<"key", StrVal("A")>>  >>,
      <<  <<"hexkey", StrVal("0B")>>  >>,
      <<  <<"key", StrVal("A")>>, <<"kdf_iter", IntVal(99)>>, <<"cipher", StrVal("aes256cbc")>>  >>,
      <<  <<"kdf_iter", IntVal(0 - 7)>>, <<"key", StrVal("A")>>  >> }

\* the values the canary setting takes
UserVersions == {0, 7}

InitSessions ==
    /\ request \in SessionRequests
    /\ file \in InitFiles
    /\ uv \in UserVersions
    /\ data = 0
    /\ xlock = NoOne
    /\ shared = {}
    /\ hkey = [h \in Handles |-> NoKey]
    /\ hcfg = [h \in Handles |-> NoCfg]
    /\ intxn = [h \in Handles |-> FALSE]
    /\ \E b \in BOOLEAN : readonly = [h \in Handles |-> h = "db" /\ b]
    /\ call = Idle
    /\ log = <<>>
    /\ budget = [calls |-> MaxCalls, steps |-> MaxSteps]
    /\ hist = NoHistory
    /\ library = TRUE
    /\ gen = NoGen
    /\ run = NoRun

NextSessions ==
    \/ \E h \in Handles : Start(h)
    \/ ApplyOption
    \/ CanaryRead
    \/ TxnRead
    \/ TxnWrite
    \/ TxnCommit
    \/ \E h \in Handles : BeginExclusive(h)
    \/ \E h \in Handles : EndTxn(h)
    \/ \E h \in Handles : WriteData(h)
    \/ \E h \in Handles, v \in UserVersions : SetUserVersion(h, v)

SpecSessions == InitSessions /\ [][NextSessions]_vars

--------------------------------------------------------------------------
(* Properties of one call *)

IsKeyDirective(name) == Lower(name) \in {"key", "hexkey", "rekey", "hexrekey"}

NumKeyDirectives(r) == Cardinality({i \in 1..Len(r) : IsKeyDirective(r[i][1])})

\* the tier of an option name
Tier(name) ==
    IF Lower(name) = "cipher" THEN "cipher"
    ELSE IF Lower(name) = "legacy" THEN "legacy"
    ELSE IF IsKeyDirective(name) THEN "key"
    ELSE IF Contains("legacy", Lower(name)) THEN "legacyish"
    ELSE "other"

Applied == {i \in 1..Len(log) : log[i].op = "pragma"}

Finished == call.pc = "done"

HandleUntouched(h) == hkey[h] = NoKey /\ hcfg[h] = NoCfg /\ uv = call.uv0

\* C1 as stated: a request without exactly one key directive fails with
\* "Exactly one key must be provided", whatever the state of the handle, and
\* nothing is applied to the handle.
C1_Original ==
    (Finished /\ NumKeyDirectives(request) # 1)
        => (call.result = "ExactlyOneKey" /\ log = <<>>)

\* C1 amended: on a handle that is not inside a transaction, a request without
\* exactly one key directive fails with "Exactly one key must be provided";
\* and in every state of the handle nothing is applied to it.
C1_ExactlyOneKey ==
    (call.pc # "idle" /\ NumKeyDirectives(request) # 1)
        => /\ Finished
           /\ log = <<>>
           /\ HandleUntouched(call.h)
           /\ ~call.intxn0 => call.result = "ExactlyOneKey"

C1_Witness ==
    /\ Finished
    /\ call.result = "ExactlyOneKey"
    /\ \E i, j \in 1..Len(request) : request[i][1] = "key" /\ request[j][1] = "KeY"

\* C2: a call made while the handle is inside a transaction fails with
\* "Won't update encryption while in a transaction" for every request, makes
\* no engine call, and leaves the transaction open.
C2_InTransaction ==
    (call.pc # "idle" /\ call.intxn0)
        => /\ Finished
           /\ call.result = "InTransaction"
           /\ log = <<>>
           /\ HandleUntouched(call.h)
           /\ intxn[call.h]

C2_Witness ==
    /\ Finished
    /\ call.result = "InTransaction"
    /\ intxn[call.h]
    /\ NumKeyDirectives(request) = 1
    /\ Len(request) > 1

\* a must be applied before b: cipher, then legacy, then the options with
\* "legacy" in the name, and the key directive after them
Before(a, b) ==
    \/ Tier(a) = "cipher" /\ Tier(b) \in {"legacy", "legacyish", "key"}
    \/ Tier(a) = "legacy" /\ Tier(b) \in {"legacyish", "key"}
    \/ Tier(a) = "legacyish" /\ Tier(b) = "key"

\* C3: whatever the insertion order, no option is applied while the request
\* still holds an unapplied option of an earlier tier (cipher, legacy, name
\* containing "legacy", key directive), and once the options are through,
\* each has been applied exactly once.
C3_Order ==
    /\ \A j \in Applied : \A k \in 1..Len(request) :
          Before(request[k][1], log[j].name)
              => \E i \in 1..(j - 1) : log[i].op = "pragma" /\ log[i].name = request[k][1]
    /\ call.pc = "canary"
          => /\ Len(log) = Len(request)
             /\ \A k \in 1..Len(request) : \E i \in Applied : log[i].name = request[k][1]

C3_Witness ==
    /\ call.pc = "canary"
    /\ Len(request) = 4
    /\ Tier(request[1][1]) = "key"
    /\ Tier(request[2][1]) = "legacyish"
    /\ Tier(request[3][1]) = "legacy"
    /\ Tier(request[4][1]) = "cipher"
    /\ Tier(log[1].name) = "cipher"
    /\ Tier(log[2].name) = "legacy"
    /\ Tier(log[3].name) = "legacyish"
    /\ Tier(log[4].name) = "key"

\* C4: every option with "legacy" in its name is applied before every
\* remaining non-key option.
C4_LegacyBeforeOthers ==
    \A i, j \in Applied :
        (Tier(log[i].name) = "other" /\ Tier(log[j].name) = "legacyish") => j < i

\* C5: the echo expected is "ok" for the key directive and str(value) for
\* every other option; the call goes on after an expected echo, and at an
\* unexpected one it fails with "Failed to configure" naming that option and
\* applies nothing more: no later option, no canary read or write.
EchoExpected(e) ==
    e.echo = (IF IsKeyDirective(e.name) THEN "ok" ELSE Str(e.value))

C5_StopAtMismatch ==
    \A i \in Applied :
        LET e == log[i] IN
        IF e.raise = "" /\ ~EchoExpected(e)
        THEN /\ i = Len(log)
             /\ Finished
             /\ call.result = "FailedToConfigure"
             /\ call.failed = e.name
        ELSE ~(i = Len(log) /\ Finished /\ call.result = "FailedToConfigure")

C5_Witness ==
    /\ Finished
    /\ call.result = "FailedToConfigure"
    /\ call.failed = "kdf_iter"
    /\ Len(log) >= 2
    /\ log[Len(log)].echo # "-7"
    /\ \A i \in 1..Len(log) : ~IsKeyDirective(log[i].name)
    /\ \E k \in 1..Len(request) : IsKeyDirective(request[k][1])

--------------------------------------------------------------------------
(* Properties of calls among the statements of two connections *)

\* the call's own step, not a statement of a session
CallStep == call' # call

NoCanaryWrite(l) == \A i \in 1..Len(l) : l[i].op \notin {"begin", "write", "commit"}

Unreadable(h) == ~Readable(file, hkey[h], hcfg[h])

\* C6 as stated: when every echo matched and the file does not validate under
\* the key and cipher applied, the canary read fails and the call fails with
\* NotADBError before any canary write.
C6_Original ==
    [][(call.pc = "canary" /\ CallStep /\ Unreadable(call.h))
          => /\ call'.pc = "done"
             /\ call'.result = "NotADB"
             /\ NoCanaryWrite(log')]_vars

\* C6 amended: a call never succeeds with a key or cipher under which the
\* file is unreadable; when every echo matched and the file does not validate,
\* the canary read fails, before any canary write, and the call fails with
\* NotADBError, or with BusyError when another connection holds the lock.
C6_WrongKey ==
    /\ [][(call.pc = "canary" /\ CallStep /\ Unreadable(call.h))
            => /\ call'.pc = "done"
               /\ call'.result \in {"NotADB", "Busy"}
               /\ (call'.result = "Busy" <=> Locked(call.h))
               /\ NoCanaryWrite(log')]_vars
    /\ [][(call.pc # "done" /\ call'.pc = "done" /\ call'.result = "ok")
            => Readable(file', hkey'[call'.h], hcfg'[call'.h])]_vars

C6_Witness ==
    /\ Finished
    /\ call.result = "NotADB"
    /\ Unreadable(call.h)
    /\ Len(log) = Len(request) + 1
    /\ \A i \in Applied : EchoExpected(log[i])
    /\ log[Len(log)].op = "read"
    /\ log[Len(log)].raise = "NotADB"

\* the failures inside the with block
TxnFailures ==
    {i \in 1..Len(log) : /\ log[i].op \in {"read", "write"}
                         /\ log[i].raise # ""
                         /\ \E j \in 1..(i - 1) : log[j].op = "begin"}

\* C7: a ReadOnlyError from the canary write-back is passed over and the call
\* succeeds; any other exception of that step is the call's failure; and
\* without an exception the call succeeds.
C7_ReadOnlySwallowed ==
    (Finished /\ \E j \in 1..Len(log) : log[j].op = "begin")
        => /\ \A i \in TxnFailures :
                call.result = (IF log[i].raise = "ReadOnly" THEN "ok" ELSE log[i].raise)
           /\ TxnFailures = {} => call.result = "ok"

C7_Witness ==
    /\ Finished
    /\ call.result = "ok"
    /\ readonly[call.h]
    /\ \A i \in Applied : EchoExpected(log[i])
    /\ \E i \in TxnFailures : log[i].op = "write" /\ log[i].raise = "ReadOnly"
    /\ ~intxn[call.h]

\* the call before the last one was on the same connection and ended as said
After(result) == hist.prev.h = call.h /\ hist.prev.result = result

\* only the other connection ran statements before the call, and it ended
\* its transaction
LockReleased ==
    /\ hist.last.before # <<>>
    /\ \A i \in 1..Len(hist.last.before) :
          hist.last.before[i].h # call.h /\ hist.last.before[i].op = "end"
    /\ ~hist.last.locked0
    /\ hist.last.during = <<>>

\* C8: an engine call that reports Busy ends the call with BusyError, and no
\* engine call is made after it; the same request on the same connection
\* succeeds once the lock has been released.
C8_NoRetry ==
    /\ \A i \in 1..Len(log) :
          log[i].raise = "Busy"
              => /\ Finished
                 /\ call.result = "Busy"
                 /\ \A j \in 1..Len(log) : j > i => log[j].op = "rollback"
    /\ (Finished /\ After("Busy") /\ LockReleased /\ ~Unreadable(call.h))
          => call.result = "ok"

C8_Witness ==
    /\ Finished
    /\ After("Busy")
    /\ LockReleased
    /\ call.result = "ok"
    /\ Len(request) = 3

\* nothing ran on either connection during the two last calls or between them
InARow ==
    /\ hist.prev.during = <<>>
    /\ hist.last.before = <<>>
    /\ hist.last.during = <<>>

\* C9: a request that succeeded succeeds again when applied again right
\* away, and after each of the two calls user_version is what it was before
\* the first.
C9_Idempotent ==
    (Finished /\ After("ok") /\ InARow)
        => /\ call.result = "ok"
           /\ hist.prev.uv1 = hist.prev.uv0
           /\ hist.last.uv1 = hist.prev.uv0

C9_Witness ==
    /\ Finished
    /\ After("ok")
    /\ InARow
    /\ call.result = "ok"
    /\ hist.prev.uv0 = 7
    /\ ~readonly[call.h]
    /\ Len(request) = 3

\* the first connection configured the database and wrote to it, then the
\* second was given the same request
SecondHandle ==
    /\ Finished
    /\ call.h = "con2"
    /\ hist.prev.h = "db"
    /\ hist.prev.result = "ok"
    /\ Len(hist.last.before) = 1
    /\ hist.last.before[1].h = "db"
    /\ hist.last.before[1].op = "write"
    /\ hist.last.during = <<>>
    /\ hist.steps = <<>>

\* C10: the second connection's call succeeds, it reads the data the first
\* wrote, and each option other than the key reads back as str(value).
C10_RoundTrip ==
    SecondHandle
        => /\ call.result = "ok"
           /\ ReadData("con2") = hist.last.before[1].v
           /\ \A k \in 1..Len(request) :
                 ~IsKeyDirective(request[k][1])
                     => PragmaGet("con2", request[k][1]) = Str(request[k][2])

C10_Witness ==
    /\ SecondHandle
    /\ call.result = "ok"
    /\ ReadData("con2") = 1
    /\ Len(request) = 3
    /\ PragmaGet("con2", "kdf_iter") = "99"
    /\ PragmaGet("con2", "cipher") = "aes256cbc"

--------------------------------------------------------------------------
(* apply_key(db, key), one engine call per step *)

\* the keys the calls are given
Keys == {"A", "B"}

\* retries are counted up to this many
MaxRetries == 2

Count(n) == IF n < MaxRetries THEN n + 1 ELSE n

\* any echo of the key pragma taken for "ok"
KeyAcceptedAny(echo) == TRUE

\* db.pragma("key", key) != 'ok'
KeyAccepted(echo) == echo = "ok"

\* BusyError not retried
OnKeyErrorRaise(e) == IF e = "NotADB" THEN "False" ELSE e

\* the except clauses of the loop: retry on BusyError, False on NotADBError,
\* anything else leaves the function
OnKeyError(e) ==
    IF e = "Busy" THEN "retry"
    ELSE IF e = "NotADB" THEN "False"
    ELSE e

\* a retry that starts over from the key pragma
RetryFromKey == "key"

\* continue: back to the top of the while loop
RetryFrom == "key_read"

\* if db.in_transaction: raise apsw.SQLError
StartKey(h, k) ==
    /\ ~Running
    /\ budget.calls > 0
    /\ budget' = [budget EXCEPT !.calls = @ - 1]
    /\ log' = <<>>
    /\ LET c == [Idle EXCEPT !.op = "apply_key", !.key = k, !.h = h, !.uv0 = uv,
                              !.intxn0 = intxn[h], !.locked0 = Locked(h),
                              !.since = Len(hist.steps)] IN
       IF InTransaction(h)
       THEN /\ call' = [c EXCEPT !.pc = "done", !.result = "InTransaction"]
            /\ FinishAs("apply_key", k, h, "InTransaction", uv, uv)
       ELSE /\ call' = [c EXCEPT !.pc = "key"]
            /\ UNCHANGED hist
    /\ UNCHANGED <<library, gen, run, request, file, uv, data, xlock, shared, hkey, hcfg,
                   intxn, readonly>>

\* if db.pragma("key", key) != 'ok': raise apsw.CantOpenError
KeyPragma ==
    /\ call.pc = "key"
    /\ LET h == call.h
           item == <<"key", StrVal(call.key)>>
           r == Engine(item[1], item[2], hkey[h], hcfg[h])
       IN
       /\ hkey' = [hkey EXCEPT ![h] = r.key]
       /\ hcfg' = [hcfg EXCEPT ![h] = r.cfg]
       /\ log' = Append(log, Pragmad(item, r))
       /\ IF ~KeyAccepted(r.echo)
          THEN /\ call' = [Done("CantOpen", "key") EXCEPT !.nkey = Count(@)]
               /\ FinishAs("apply_key", call.key, h, "CantOpen", call.uv0, uv)
          ELSE /\ call' = [call EXCEPT !.pc = "key_read", !.nkey = Count(@)]
               /\ UNCHANGED hist
    /\ UNCHANGED <<library, gen, run, request, file, uv, data, xlock, shared, intxn,
                   readonly, budget>>

\* an exception inside the with block, after the rollback
KeyExcept(e, entries) ==
    LET r == OnKeyError(e) IN
    IF r = "retry"
    THEN \* time.sleep(0.1); continue
         /\ call' = [call EXCEPT !.pc = RetryFrom, !.retries = Count(@)]
         /\ log' = SubSeq(log, 1, 1)
         /\ UNCHANGED hist
    ELSE /\ call' = Done(r, "")
         /\ log' = log \o entries
         /\ FinishAs("apply_key", call.key, call.h, r, call.uv0, uv)

\* with db: ... db.pragma("user_version") read inside the transaction
KeyRead ==
    /\ call.pc = "key_read"
    /\ LET h == call.h
           e == ReadFails(h)
       IN
       IF e # ""
       THEN /\ KeyExcept(e, <<Entry("begin", "", ""), Entry("read", "user_version", e),
                              Entry("rollback", "", "")>>)
            /\ UNCHANGED <<intxn, shared>>
       ELSE /\ log' = log \o <<Entry("begin", "", ""), Entry("read", "user_version", "")>>
            /\ call' = [call EXCEPT !.pc = "key_write", !.tmp = uv]
            /\ intxn' = [intxn EXCEPT ![h] = TRUE]
            /\ shared' = shared \cup ReadLock(h)
            /\ UNCHANGED hist
    /\ UNCHANGED <<library, gen, run, request, file, uv, data, xlock, hkey, hcfg, readonly,
                   budget>>

\* db.pragma("user_version", <the value read>) inside the transaction
KeyWrite ==
    /\ call.pc = "key_write"
    /\ LET h == call.h
           e == WriteFails(h)
       IN
       IF e # ""
       THEN /\ KeyExcept(e, <<Entry("write", "user_version", e), Entry("rollback", "", "")>>)
            /\ intxn' = Rollback(h)
            /\ shared' = shared \ {h}
            /\ UNCHANGED <<file, uv, xlock>>
       ELSE /\ log' = Append(log, Entry("write", "user_version", ""))
            /\ call' = [call EXCEPT !.pc = "key_commit"]
            /\ uv' = WriteBack(call.tmp)
            /\ file' = Written(h)
            /\ xlock' = h
            /\ UNCHANGED <<intxn, shared, hist>>
    /\ UNCHANGED <<library, gen, run, request, data, hkey, hcfg, readonly, budget>>

\* leaving the with block: the transaction commits; return True
KeyCommit ==
    /\ call.pc = "key_commit"
    /\ LET h == call.h IN
       /\ log' = Append(log, Entry("commit", "", ""))
       /\ call' = Done("True", "")
       /\ FinishAs("apply_key", call.key, h, "True", call.uv0, uv)
       /\ intxn' = [intxn EXCEPT ![h] = FALSE]
       /\ shared' = shared \ {h}
       /\ xlock' = NoOne
    /\ UNCHANGED <<library, gen, run, request, file, uv, data, hkey, hcfg, readonly, budget>>

--------------------------------------------------------------------------
(* Two connections to one database: apply_key and apply_encryption calls   *)
(* on either, and between and during them the statements of the tests      *)

\* apply_encryption(db, key="A")
KeyRequests == { <<  <<"key", StrVal("A")>>  >> }

\* the databases of the test: a new one, and one written under each key
InitKeyFiles == {EmptyFile} \cup {Codec(Material("key", StrVal(k)), NoCfg) : k \in Keys}

InitKey ==
    /\ request \in KeyRequests
    /\ file \in InitKeyFiles
    /\ uv = 0
    /\ data = 0
    /\ xlock = NoOne
    /\ shared = {}
    /\ hkey = [h \in Handles |-> NoKey]
    /\ hcfg = [h \in Handles |-> NoCfg]
    /\ intxn = [h \in Handles |-> FALSE]
    /\ \E b \in BOOLEAN : readonly = [h \in Handles |-> h = "db" /\ b]
    /\ call = Idle
    /\ log = <<>>
    /\ budget = [calls |-> MaxCalls, steps |-> MaxSteps]
    /\ hist = NoHistory
    \* a library without encryption is met on a new database only
    /\ library \in BOOLEAN
    /\ ~library => (file = EmptyFile /\ ~readonly["db"])
    /\ gen = NoGen
    /\ run = NoRun

NextKey ==
    \/ \E h \in Handles, k \in Keys : StartKey(h, k)
    \/ KeyPragma
    \/ KeyRead
    \/ KeyWrite
    \/ KeyCommit
    \/ \E h \in Handles : Start(h)
    \/ ApplyOption
    \/ CanaryRead
    \/ TxnRead
    \/ TxnWrite
    \/ TxnCommit
    \/ \E h \in Handles : BeginExclusive(h)
    \/ \E h \in Handles : EndTxn(h)
    \/ \E h \in Handles, v \in UserVersions : SetUserVersion(h, v)

SpecKey == InitKey /\ [][NextKey]_vars

--------------------------------------------------------------------------
(* Properties of apply_key *)

\* the database was written under key k
WrittenUnder(k) == ~file.empty /\ file.key = Material("key", StrVal(k))

\* the last two calls were apply_key on the same connection, neither of them
\* stopped by the checks before the canary
TwoKeyCalls ==
    /\ Finished
    /\ call.op = "apply_key"
    /\ hist.prev.op = "apply_key"
    /\ hist.prev.h = call.h
    /\ {hist.prev.result, call.result} \cap {"InTransaction", "CantOpen"} = {}

\* C11: on a database written under key A, apply_key with key B returns False
\* and does not raise, and the next apply_key on the same connection with key
\* A returns True.
C11_WrongKeyThenRight ==
    (TwoKeyCalls /\ WrittenUnder("A") /\ hist.prev.key = "B" /\ call.key = "A")
        => (hist.prev.result = "False" /\ call.result = "True")

\* the same on connections that can write
C11_Writable ==
    (TwoKeyCalls /\ WrittenUnder("A") /\ hist.prev.key = "B" /\ call.key = "A"
       /\ ~readonly[call.h])
        => (hist.prev.result = "False" /\ call.result = "True")

--------------------------------------------------------------------------
(* apply_key while the other connection takes and releases the write lock: *)
(* the call's steps keep being taken (the thread runs, time.sleep returns), *)
(* the lock holder may or may not end its transaction                       *)

InitBusy ==
    /\ request = <<>>
    /\ file \in InitFiles
    /\ uv = 0
    /\ data = 0
    /\ xlock = NoOne
    /\ shared = {}
    /\ hkey = [h \in Handles |-> NoKey]
    /\ hcfg = [h \in Handles |-> NoCfg]
    /\ intxn = [h \in Handles |-> FALSE]
    /\ \E b \in BOOLEAN : readonly = [h \in Handles |-> h = "db" /\ b]
    /\ call = Idle
    /\ log = <<>>
    /\ budget = [calls |-> MaxCalls, steps |-> MaxSteps]
    /\ hist = NoHistory
    /\ library = TRUE
    /\ gen = NoGen
    /\ run = NoRun

KeyStep == KeyPragma \/ KeyRead \/ KeyWrite \/ KeyCommit

NextBusy ==
    \/ \E h \in Handles, k \in Keys : StartKey(h, k)
    \/ KeyPragma
    \/ KeyRead
    \/ KeyWrite
    \/ KeyCommit
    \/ \E h \in Handles : BeginExclusive(h)
    \/ \E h \in Handles : EndTxn(h)

SpecBusy == InitBusy /\ [][NextBusy]_vars /\ WF_vars(KeyStep)

KeyRunning == Running /\ call.op = "apply_key"

\* the canary transaction of the running apply_key meets the other
\* connection's lock
BusyNow == KeyRunning /\ call.pc = "key_read" /\ Locked(call.h)

\* a connection outside the running call holds the write lock
LockHeld == xlock # NoOne /\ ~(Running /\ xlock = call.h)

\* while the engine reports Busy the call stays in its loop, counting one
\* more retry, and BusyError is never its outcome
C12_Retries ==
    [][BusyNow => /\ call'.pc \in {"key_read"}
                  /\ call'.retries = Count(call.retries)
                  /\ call'.result # "Busy"]_call

\* once the lock stays released every call comes to its end
C12_Released == (<>[]~LockHeld) => (<>[]~KeyRunning)

\* a call the lock never lets through never ends
C12_NeverReleased == [](BusyNow => ([]LockHeld => []KeyRunning))

\* the outcome of a call that had to retry: True under the right key, False
\* under a wrong one
C12_Outcome ==
    (Finished /\ call.op = "apply_key" /\ call.retries > 0)
        => call.result = IF Readable(file, hkey[call.h], hcfg[call.h]) THEN "True" ELSE "False"

\* C12: while the engine reports Busy for the canary transaction apply_key
\* neither returns nor raises BusyError but retries, without a bound on the
\* attempts; when the lock holder releases the lock the call returns, True for
\* the right key and False for a wrong one; when the lock is never released
\* the call never ends.
C12_BusyRetry == C12_Retries /\ C12_Released /\ C12_NeverReleased /\ []C12_Outcome

\* the call has ended and no statement ran on either connection since
JustFinished == Finished /\ hist.steps = <<>>

\* C13: apply_key called inside a transaction fails at once with the
\* transaction error, without the key pragma and without any canary step; and
\* when the echo of the key pragma is not "ok" it fails with the
\* no-encryption error without any canary step.
C13_FailFast ==
    (JustFinished /\ call.op = "apply_key")
        => /\ call.intxn0 => /\ call.result = "InTransaction"
                             /\ log = <<>>
                             /\ call.nkey = 0
                             /\ intxn[call.h]
           /\ (log # <<>> /\ log[1].echo # "ok") => /\ call.result = "CantOpen"
                                                    /\ Len(log) = 1
                                                    /\ log[1].name = "key"
                                                    /\ ~intxn[call.h]
                                                    /\ call.h \notin shared
                                                    /\ xlock # call.h

C13_Witness ==
    /\ Finished
    /\ call.op = "apply_key"
    /\ call.result = "CantOpen"
    /\ log # <<>>
    /\ log[1].echo = NoEcho
    /\ hist.prev.op = "apply_key"
    /\ hist.prev.result = "InTransaction"
    /\ hist.prev.h = call.h

\* apply_encryption(h, key=k) and then apply_key(h, k), or the other way
\* round, on a library with encryption, with no statement run on either
\* connection before, between or during the two calls
SameKeyTwice ==
    /\ JustFinished
    /\ library
    /\ hist.prev.h = call.h
    /\ {hist.prev.op, hist.last.op} = {"apply_encryption", "apply_key"}
    /\ \A c \in {hist.prev, hist.last} :
          /\ c.op = "apply_key" => c.key = request[1][2].s
          /\ c.before = <<>>
          /\ c.during = <<>>
          /\ ~c.locked0

ResultOfKey == IF hist.last.op = "apply_key" THEN hist.last.result ELSE hist.prev.result

ResultOfEncryption ==
    IF hist.last.op = "apply_encryption" THEN hist.last.result ELSE hist.prev.result

\* C14: in every state of the database that is not busy (key right or wrong,
\* connection read-only or not) apply_key(h, k) returns True exactly when
\* apply_encryption(h, key=k) succeeds, and False exactly when that fails
\* with NotADBError.
C14_SameCanary ==
    SameKeyTwice => /\ ResultOfKey = "True" <=> ResultOfEncryption = "ok"
                    /\ ResultOfKey = "False" <=> ResultOfEncryption = "NotADB"

\* the same on connections that can write
C14_Writable ==
    (SameKeyTwice /\ ~readonly[call.h])
        => /\ ResultOfKey = "True" <=> ResultOfEncryption = "ok"
           /\ ResultOfKey = "False" <=> ResultOfEncryption = "NotADB"

\* the canary log entries of an apply_key call: the transaction of the last
\* attempt only
KeyPragmas == {i \in 1..Len(log) : log[i].op = "pragma"}

\* C20: a call of apply_key applies the key pragma at most once, however often
\* Busy makes it retry: a retry goes back to the canary transaction, not to the
\* key pragma, and starts a new transaction with the one before rolled back.
C20_KeyOnce ==
    (call.op = "apply_key")
        => /\ call.nkey <= 1
           /\ Cardinality(KeyPragmas) = call.nkey
           /\ call.retries > 0 => call.nkey = 1
           /\ call.pc \in {"key", "key_read"} => /\ ~intxn[call.h]
                                                 /\ call.h \notin shared
                                                 /\ xlock # call.h

\* a step that retries leaves the key the connection was given alone
C20_RetryKeepsKey ==
    [][(KeyRunning /\ call'.retries # call.retries) => (hkey' = hkey /\ call'.nkey = call.nkey)]_vars

C20_Witness ==
    /\ Finished
    /\ call.op = "apply_key"
    /\ call.retries = MaxRetries
    /\ call.nkey = 1
    /\ call.result = "True"

--------------------------------------------------------------------------
(* The canary write-back under statements of the other connection *)

\* the user_version statements the other connection ran during the last call
OtherWrites ==
    SelectSeq(hist.last.during, LAMBDA s : s.op = "user_version" /\ s.h # hist.last.h)

\* C17: the value written back is read inside the same transaction, so a call
\* that succeeds never puts back a value older than one the other connection
\* committed during the call: after the call user_version is the last value
\* the other connection set during it, or what it was before the call when
\* the other connection set none.
C17_NoLostUpdate ==
    (JustFinished /\ call.result \in {"ok", "True"})
        => uv = IF OtherWrites = <<>> THEN call.uv0
                ELSE OtherWrites[Len(OtherWrites)].v

C17_Witness ==
    /\ JustFinished
    /\ call.result \in {"ok", "True"}
    /\ OtherWrites # <<>>
    /\ uv = 7
    /\ call.uv0 = 0
    /\ \E i \in 1..Len(log) : log[i].op = "write" /\ log[i].raise = ""

--------------------------------------------------------------------------
(* permutations(): the random source, and the candidate lists *)

\* the permutations a run yields before the model stops it
MaxYield == 1

\* random numbers below n are all drawn when n is at most this, and the
\* smallest, the middle and the largest otherwise
MaxFan == 10

\* tuple(ciphers.keys()): the keys of a dict come in insertion order
CipherKeys == <<"aes128cbc", "aes256cbc", "chacha20", "sqlcipher", "rc4", "ascon128">>

\* the characters of parameter names, in code point order
NameChars == "_abcdefghijklmnopqrstuvwxyz"

CharRank ==
    [c \in {SubSeq(NameChars, i, i) : i \in 1..Len(NameChars)} |->
       CHOOSE i \in 1..Len(NameChars) : SubSeq(NameChars, i, i) = c]

\* s < t for str
RECURSIVE StrLess(_, _)
StrLess(s, t) ==
    IF s = "" THEN t # ""
    ELSE IF t = "" THEN FALSE
    ELSE LET a == CharRank[SubSeq(s, 1, 1)]
             b == CharRank[SubSeq(t, 1, 1)]
         IN IF a # b THEN a < b
            ELSE StrLess(SubSeq(s, 2, Len(s)), SubSeq(t, 2, Len(t)))

\* the place of a name among all the parameter names
StrRank(s) == Cardinality({t \in all_params : StrLess(t, s)})

\* sorted(seq), the elements compared by their ranks
SortedBy(seq, rank) ==
    LET order == SortIndices(Len(seq), rank) IN [k \in 1..Len(seq) |-> seq[order[k]]]

\* the elements of a set in some order
RECURSIVE Enumerate(_)
Enumerate(S) ==
    IF S = {} THEN <<>>
    ELSE LET x == CHOOSE x \in S : TRUE IN <<x>> \o Enumerate(S \ {x})

Reverse(seq) == [i \in 1..Len(seq) |-> seq[Len(seq) + 1 - i]]

\* tuple(all_params): a set of str iterates in an order that depends on the
\* hash seed of the interpreter; two of the orders
HashSeeds == {1, 2}

TupleOfParams ==
    [seed \in HashSeeds |->
       IF seed = 1 THEN Enumerate(all_params) ELSE Reverse(Enumerate(all_params))]

SortedParams ==
    [seed \in HashSeeds |->
       LET t == TupleOfParams[seed] IN SortedBy(t, [i \in 1..Len(t) |-> StrRank(t[i])])]

\* the candidate names drawn from as they come out of the set
CandidatesUnsorted(seed) == TupleOfParams[seed]

\* sorted(all_params)
Candidates(seed) == SortedParams[seed]

\* sorted(valid) for the parameters whose values are a set
SortedValues ==
    [c \in DOMAIN ciphers |->
       [p \in DOMAIN ciphers[c] |->
          IF ciphers[c][p].isSet
          THEN LET t == Enumerate(ciphers[c][p].vals) IN SortedBy(t, t)
          ELSE <<>>]]

\* the results of random._randbelow(n) the model draws
Draws(n) == IF n <= MaxFan THEN 0..(n - 1) ELSE {0, n \div 2, n - 1}

--------------------------------------------------------------------------
(* permutations(), one random number per step, in two runs of the program  *)
(* that are given the same random numbers                                  *)

Runs == {"a", "b"}

\* a run at the top of the while loop, nothing yielded yet
GenStart(seed) ==
    [seed |-> seed, pc |-> "cipher", n |-> 0, cipher |-> "", k |-> 0, left |-> 0,
     good |-> <<>>, bad |-> <<>>, param |-> "", out |-> <<>>]

\* a random integer one above the range
RandIntAbove(lo, hi, r) == lo + r + 1

\* random.randint(lo, hi) from the random number below hi - lo + 1
RandInt(lo, hi, r) == lo + r

\* the n of the random._randbelow(n) the run makes next
Need(g) ==
    CASE g.pc = "cipher" -> Len(CipherKeys)
      [] g.pc = "count" -> 4
      [] g.pc = "name" -> Len(Candidates(g.seed))
      [] OTHER -> LET valid == ciphers[g.cipher][g.param] IN
                  IF valid.isSet THEN Len(SortedValues[g.cipher][g.param])
                  ELSE valid.hi - valid.lo + 1

\* the end of one pass of the for loop: the next pass, or the yield
Continue(g) ==
    IF g.left = 0
    THEN [g EXCEPT !.pc = "cipher", !.out = <<g.cipher, g.good, g.bad>>, !.n = @ + 1]
    ELSE [g EXCEPT !.pc = "name"]

\* the run after its next random number r
Advance(g, r) ==
    CASE g.pc = "cipher" ->
           \* resumed after the yield: cipher = random.choice(tuple(ciphers.keys()))
           [g EXCEPT !.pc = "count", !.cipher = CipherKeys[r + 1], !.k = 0, !.left = 0,
                     !.good = <<>>, !.bad = <<>>, !.out = <<>>]
      [] g.pc = "count" ->
           \* for _ in range(random.randrange(4))
           Continue([g EXCEPT !.k = r, !.left = r])
      [] g.pc = "name" ->
           \* param = random.choice(sorted(all_params))
           LET param == Candidates(g.seed)[r + 1] IN
           IF param \notin DOMAIN ciphers[g.cipher]
           THEN Continue([g EXCEPT !.bad = Append(@, <<param, 0>>), !.left = @ - 1])
           ELSE [g EXCEPT !.pc = "value", !.param = param]
      [] OTHER ->
           LET valid == ciphers[g.cipher][g.param]
               v == IF valid.isSet THEN SortedValues[g.cipher][g.param][r + 1]
                    ELSE RandInt(valid.lo, valid.hi, r)
           IN Continue([g EXCEPT !.good = Append(@, <<g.param, v>>), !.left = @ - 1,
                                 !.param = ""])

\* both runs take their next random number: the same number when they ask
\* for one below the same n
GenDraw ==
    /\ \A x \in Runs : ~(gen[x].pc = "cipher" /\ gen[x].n >= MaxYield)
    /\ \E ra \in Draws(Need(gen["a"])), rb \in Draws(Need(gen["b"])) :
          /\ Need(gen["a"]) = Need(gen["b"]) => ra = rb
          /\ gen' = [x \in Runs |-> Advance(gen[x], IF x = "a" THEN ra ELSE rb)]
    /\ UNCHANGED <<library, run, request, file, uv, data, xlock, shared, hkey, hcfg, intxn,
                   readonly, call, log, budget, hist>>

InitGen ==
    /\ gen \in {[x \in Runs |-> GenStart(s[x])] : s \in [Runs -> HashSeeds]}
    /\ run = NoRun
    /\ request = <<>>
    /\ file = EmptyFile
    /\ uv = 0
    /\ data = 0
    /\ xlock = NoOne
    /\ shared = {}
    /\ hkey = [h \in Handles |-> NoKey]
    /\ hcfg = [h \in Handles |-> NoCfg]
    /\ intxn = [h \in Handles |-> FALSE]
    /\ readonly = [h \in Handles |-> FALSE]
    /\ call = Idle
    /\ log = <<>>
    /\ budget = [calls |-> 0, steps |-> 0]
    /\ hist = NoHistory
    /\ library = TRUE

NextGen == GenDraw

SpecGen == InitGen /\ [][NextGen]_vars

--------------------------------------------------------------------------
(* Properties of permutations() *)

\* the run has just yielded
Yielded(g) == g.out # <<>>

\* C15: in every permutation (cipher, good, bad) yielded, every good pair
\* names a parameter of that cipher with a value in the parameter's set or
\* inclusive range; every bad pair names a parameter of some cipher that is
\* not a parameter of that cipher, with the value 0; and the good and bad
\* pairs together are as many as the count drawn, which is 0, 1, 2 or 3.
C15_Permutation ==
    \A x \in Runs :
       Yielded(gen[x]) =>
          LET cipher == gen[x].out[1]
              good == gen[x].out[2]
              bad == gen[x].out[3]
          IN /\ cipher \in DOMAIN ciphers
             /\ \A i \in 1..Len(good) :
                   /\ good[i][1] \in DOMAIN ciphers[cipher]
                   /\ InDomain(ciphers[cipher][good[i][1]], good[i][2])
             /\ \A i \in 1..Len(bad) :
                   /\ bad[i][1] \in all_params
                   /\ bad[i][1] \notin DOMAIN ciphers[cipher]
                   /\ bad[i][2] = 0
             /\ Len(good) + Len(bad) = gen[x].k
             /\ gen[x].k \in 0..3

C15_Witness ==
    /\ Yielded(gen["a"])
    /\ gen["a"].out = <<"chacha20", << <<"kdf_iter", 10000>>, <<"legacy_page_size", 512>> >>,
                        << <<"hmac_use", 0>> >> >>

\* C16: two runs given the same random numbers are at the same place with the
\* same permutation yielded after every draw, whatever order their sets
\* iterate in; and after a yield the generator is at the top of its loop
\* again, with a next draw to make.
C16_Deterministic ==
    /\ gen["a"] = [gen["b"] EXCEPT !.seed = gen["a"].seed]
    /\ \A x \in Runs : Yielded(gen[x]) => gen[x].pc = "cipher" /\ Need(gen[x]) > 0

C16_Witness ==
    /\ gen["a"].seed # gen["b"].seed
    /\ Yielded(gen["a"])
    /\ Yielded(gen["b"])
    /\ Len(gen["b"].out[2]) = 1
    /\ Len(gen["b"].out[3]) = 2

--------------------------------------------------------------------------
(* run(): the soak-test driver, against an engine whose echoes and whose   *)
(* failures are the ones the driver looks for                              *)

\* the permutations the driver takes before the model stops it
MaxIters == 3

ok_messages == {"Pagesize cannot be changed for an encrypted database."}

\* some of the permutations the generator yields
SoakPerms ==
    { <<"rc4", <<>>, <<>>>>,
      <<"aes128cbc", << <<"legacy", 1>> >>, << <<"kdf_iter", 0>> >> >>,
      <<"chacha20", << <<"kdf_iter", 99>>, <<"legacy_page_size", 4096>> >>,
                    << <<"hmac_use", 0>> >> >>,
      <<"ascon128", <<>>, << <<"fast_kdf_iter", 0>>, <<"hmac_pgno", 0>> >> >> }

\* what str(exc) is for the SQLErrors hexrekey fails with
RekeyMessages ==
    {"SQLError: Pagesize cannot be changed for an encrypted database.",
     "SQLError: pagesize cannot be changed for an encrypted database.",
     "SQLError: Rekeying failed"}

\* how con.pragma("hexrekey", newkey) ends
RekeyOutcomes ==
    {[raise |-> "", msg |-> ""]}
      \cup {[raise |-> "SQLError", msg |-> m] : m \in RekeyMessages}
      \cup {[raise |-> e, msg |-> ""] : e \in {"NotADB", "Corrupt", "Busy"}}

Setting(kind, name, value) == [kind |-> kind, name |-> name, value |-> value, echo |-> ""]

Pairs(kind, pairs) == [i \in 1..Len(pairs) |-> Setting(kind, pairs[i][1], IntVal(pairs[i][2]))]

\* the good pairs sent before the bad ones
PlanGoodFirst(perm) ==
    <<Setting("cipher", "cipher", StrVal(perm[1]))>>
       \o Pairs("good", perm[2]) \o Pairs("bad", perm[3])

\* the pragmas of one pass before hexrekey: cipher, the bad pairs, the good pairs
Plan(perm) ==
    <<Setting("cipher", "cipher", StrVal(perm[1]))>>
       \o Pairs("bad", perm[3]) \o Pairs("good", perm[2])

\* the echoes the engine can give
Echoes(item) == IF item.kind = "cipher" THEN {Str(item.value)} ELSE {Str(item.value), Rejected}

\* the checks of the echo: breakpoint(); 1 / 0
Failed(item, echo) ==
    \/ item.kind = "bad" /\ echo = Str(item.value)
    \/ item.kind = "good" /\ echo # Str(item.value)

AllowListed == [m \in RekeyMessages |-> \E ok \in ok_messages : Contains(ok, m)]

\* every SQLError taken for a benign one
BenignAny(msg) == TRUE

\* for ok in ok_messages: if ok in str(exc)
Benign(msg) == AllowListed[msg]

RunStart ==
    [pc |-> "open", dbs |-> 0, iters |-> 0, perm |-> <<>>, todo |-> <<>>, sent |-> <<>>,
     rekey |-> [raise |-> "", msg |-> ""], workloads |-> 0, failed |-> FALSE]

\* cleanup(); con = apsw.Connection("mcall"); con.execute("create table ...")
RunOpen ==
    /\ run.pc = "open"
    /\ run' = [run EXCEPT !.pc = "next", !.dbs = @ + 1]
    /\ UNCHANGED <<library, gen, request, file, uv, data, xlock, shared, hkey, hcfg, intxn,
                   readonly, call, log, budget, hist>>

\* for cipher, good, bad in permutations()
RunNext ==
    /\ run.pc = "next"
    /\ run.iters < MaxIters
    /\ \E perm \in SoakPerms :
          run' = [run EXCEPT !.pc = "setting", !.iters = @ + 1, !.perm = perm,
                             !.todo = Plan(perm), !.sent = <<>>,
                             !.rekey = [raise |-> "", msg |-> ""], !.failed = FALSE]
    /\ UNCHANGED <<library, gen, request, file, uv, data, xlock, shared, hkey, hcfg, intxn,
                   readonly, call, log, budget, hist>>

\* con.pragma("cipher", cipher), and con.pragma(name, val) with its check
RunSetting ==
    /\ run.pc = "setting"
    /\ LET item == Head(run.todo) IN
       \E echo \in Echoes(item) :
          run' = [run EXCEPT !.sent = Append(@, [item EXCEPT !.echo = echo]),
                             !.todo = Tail(@),
                             !.pc = IF Failed(item, echo) THEN "crashed"
                                    ELSE IF Tail(run.todo) = <<>> THEN "rekey"
                                    ELSE "setting"]
    /\ UNCHANGED <<library, gen, request, file, uv, data, xlock, shared, hkey, hcfg, intxn,
                   readonly, call, log, budget, hist>>

\* con.pragma("hexrekey", newkey) and its except clauses
RunRekey ==
    /\ run.pc = "rekey"
    /\ \E o \in RekeyOutcomes :
          LET retry == \/ o.raise = "SQLError" /\ Benign(o.msg)
                       \/ o.raise \in {"NotADB", "Corrupt"}
          IN run' = [run EXCEPT !.sent = Append(@, [Setting("hexrekey", "hexrekey", StrVal(""))
                                                       EXCEPT !.echo = o.raise]),
                                !.rekey = o,
                                !.pc = IF o.raise = "" THEN "workload"
                                       ELSE IF retry THEN "next"
                                       ELSE "fatal"]
    /\ UNCHANGED <<library, gen, request, file, uv, data, xlock, shared, hkey, hcfg, intxn,
                   readonly, call, log, budget, hist>>

\* the insert, delete and vacuum after the rekey: on an exception, break
RunWorkload ==
    /\ run.pc = "workload"
    /\ \E failed \in BOOLEAN :
          run' = [run EXCEPT !.workloads = @ + 1, !.failed = failed,
                             !.pc = IF failed THEN "open" ELSE "next"]
    /\ UNCHANGED <<library, gen, request, file, uv, data, xlock, shared, hkey, hcfg, intxn,
                   readonly, call, log, budget, hist>>

InitRun ==
    /\ run = RunStart
    /\ gen = NoGen
    /\ request = <<>>
    /\ file = EmptyFile
    /\ uv = 0
    /\ data = 0
    /\ xlock = NoOne
    /\ shared = {}
    /\ hkey = [h \in Handles |-> NoKey]
    /\ hcfg = [h \in Handles |-> NoCfg]
    /\ intxn = [h \in Handles |-> FALSE]
    /\ readonly = [h \in Handles |-> FALSE]
    /\ call = Idle
    /\ log = <<>>
    /\ budget = [calls |-> 0, steps |-> 0]
    /\ hist = NoHistory
    /\ library = TRUE

NextRun ==
    \/ RunOpen
    \/ RunNext
    \/ RunSetting
    \/ RunRekey
    \/ RunWorkload

SpecRun == InitRun /\ [][NextRun]_vars

--------------------------------------------------------------------------
(* Properties of run() *)

KindRank(kind) ==
    CASE kind = "cipher" -> 0 [] kind = "bad" -> 1 [] kind = "good" -> 2 [] OTHER -> 3

\* the pairs of one kind sent in this pass, as (name, value) in the order sent
SentPairs(kind) ==
    LET s == SelectSeq(run.sent, LAMBDA e : e.kind = kind)
    IN [i \in 1..Len(s) |-> <<s[i].name, s[i].value.i>>]

\* an echo the driver is to take for a failure
WrongEcho(e) ==
    \/ e.kind = "bad" /\ e.echo = Str(e.value)
    \/ e.kind = "good" /\ e.echo # Str(e.value)

RekeySent == \E i \in 1..Len(run.sent) : run.sent[i].kind = "hexrekey"

\* C18: in every pass of the driver the settings go to the connection in the
\* order cipher, every bad pair, every good pair, hexrekey; a bad pair echoed
\* as str(value) or a good pair echoed as anything else stops the driver, and
\* the hexrekey of that pass is never sent.
C18_SoakOrder ==
    LET s == run.sent IN
    /\ s # <<>> => s[1].kind = "cipher" /\ s[1].value = StrVal(run.perm[1])
    /\ \A i, j \in 1..Len(s) : i < j => /\ KindRank(s[i].kind) <= KindRank(s[j].kind)
                                        /\ s[j].kind \notin {"cipher"}
                                        /\ s[i].kind # "hexrekey"
    /\ RekeySent => /\ SentPairs("bad") = run.perm[3]
                    /\ SentPairs("good") = run.perm[2]
                    /\ \A i \in 1..Len(s) : ~WrongEcho(s[i])
    /\ \A i \in 1..Len(s) : WrongEcho(s[i]) => (i = Len(s) /\ run.pc = "crashed")
    /\ run.pc = "crashed" => (s # <<>> /\ WrongEcho(s[Len(s)]))
    /\ run.pc \in {"rekey", "workload"} => /\ SentPairs("bad") = run.perm[3]
                                           /\ SentPairs("good") = run.perm[2]

C18_Witness ==
    /\ run.pc = "workload"
    /\ RekeySent
    /\ Len(run.perm[2]) = 2
    /\ Len(run.perm[3]) = 1
    /\ Len(run.sent) = 5

\* a wrong echo has stopped the driver between the bad and the good pairs
C18_WitnessStopped ==
    /\ run.pc = "crashed"
    /\ run.sent[Len(run.sent)].kind = "bad"
    /\ Len(run.perm[2]) = 2

\* the failures of hexrekey the driver recovers from
Recoverable(o) ==
    \/ o.raise = "SQLError" /\ \E ok \in ok_messages : Contains(ok, o.msg)
    \/ o.raise \in {"NotADB", "Corrupt"}

\* C19: when hexrekey fails with an SQLError whose message contains a message
\* of the allow-list, or with NotADBError or CorruptError, the driver goes on:
\* it runs no workload for that pass and starts the next pass with the cipher
\* pragma, on the same database; any other SQLError ends the driver; and a
\* failure of the workload after the rekey makes it delete the database and
\* start with a new one.
C19_Recovery ==
    [][/\ run.pc = "rekey" =>
             /\ Recoverable(run'.rekey) => /\ run'.pc = "next"
                                           /\ run'.workloads = run.workloads
                                           /\ run'.dbs = run.dbs
             /\ (run'.rekey.raise = "SQLError" /\ ~Recoverable(run'.rekey))
                   => run'.pc = "fatal"
             /\ run'.pc = "workload" <=> run'.rekey.raise = ""
       /\ run.pc = "next" => /\ run'.pc = "setting"
                             /\ run'.sent = <<>>
                             /\ Head(run'.todo).kind = "cipher"
                             /\ run'.dbs = run.dbs
       /\ run.pc = "workload" => /\ run'.workloads = run.workloads + 1
                                 /\ run'.pc = IF run'.failed THEN "open" ELSE "next"
       /\ run.pc = "open" => (run'.pc = "next" /\ run'.dbs = run.dbs + 1)
       /\ run.pc \notin {"fatal", "crashed"}]_run

\* hexrekey has failed with the allow-listed message on the second database,
\* the one opened after the workload of an earlier pass failed
C19_Witness ==
    /\ run.pc = "next"
    /\ run.rekey.raise = "SQLError"
    /\ Recoverable(run.rekey)
    /\ run.dbs = 2
    /\ run.workloads = 1
    /\ run.iters = 2

--------------------------------------------------------------------------
(* Transactions and configuration left behind by a call *)

\* the connection is outside any transaction and holds no lock
Balanced(h) == ~intxn[h] /\ h \notin shared /\ xlock # h

Begins == {i \in 1..Len(log) : log[i].op = "begin"}

\* an engine call of the transaction begun at entry i has raised
RaisedSince(i) == \E j \in (i + 1)..Len(log) : log[j].raise # ""

\* C21: a call of apply_encryption or apply_key that started with the
\* connection outside a transaction leaves it outside any transaction,
\* however it ends; the canary transaction it began is its last engine step,
\* committed when nothing in it raised and rolled back when something did.
C21_Balance ==
    (JustFinished /\ ~call.intxn0)
        => /\ Balanced(call.h)
           /\ Cardinality(Begins) <= 1
           /\ \A i \in Begins :
                 log[Len(log)].op = IF RaisedSince(i) THEN "rollback" ELSE "commit"
           /\ \A i \in 1..Len(log) : log[i].op \in {"commit", "rollback"} => i = Len(log)
           /\ call.result = "True" => (Begins # {} /\ log[Len(log)].op = "commit")
           /\ (call.result = "ok" /\ ~readonly[call.h])
                 => (Begins # {} /\ log[Len(log)].op = "commit")
           /\ (call.result \notin {"ok", "True"} /\ Begins # {})
                 => log[Len(log)].op = "rollback"

\* a read-only connection on which apply_encryption passed over the
\* ReadOnlyError of the canary write, after apply_key had failed on it
C21_Witness ==
    /\ JustFinished
    /\ ~call.intxn0
    /\ call.op = "apply_encryption"
    /\ call.result = "ok"
    /\ readonly[call.h]
    /\ log[Len(log)].op = "rollback"
    /\ hist.prev.op = "apply_key"
    /\ hist.prev.h = call.h
    /\ hist.prev.result = "ReadOnly"

\* the key and configuration of a connection after the pragmas of items, in order
RECURSIVE ApplyAll(_, _, _)
ApplyAll(items, key, cfg) ==
    IF items = <<>> THEN [key |-> key, cfg |-> cfg]
    ELSE LET r == Engine(Head(items)[1], Head(items)[2], key, cfg)
         IN ApplyAll(Tail(items), r.key, r.cfg)

\* the pragmas of the call that were taken: no exception and the expected echo
Taken == {i \in Applied : log[i].raise = "" /\ EchoExpected(log[i])}

\* C22: when apply_encryption fails at an option with "Failed to configure",
\* or at the canary with NotADBError, every option ordered before the point
\* of failure has been applied to the connection and is still in effect:
\* the connection's key and configuration are what those options make of a
\* fresh connection, not what they were before the call.
C22_NotAtomic ==
    (Finished /\ call.result \in {"FailedToConfigure", "NotADB"})
        => LET n == Cardinality(Taken)
               before == SubSeq(SortedItems(request), 1, n)
               s == ApplyAll(before, NoKey, NoCfg)
           IN /\ Taken = 1..n
              /\ \A i \in 1..n : log[i].name = before[i][1] /\ log[i].value = before[i][2]
              /\ call.result = "NotADB" => n = Len(request)
              /\ call.result = "FailedToConfigure" => call.failed = SortedItems(request)[n + 1][1]
              /\ hkey[call.h] = s.key
              /\ hcfg[call.h] = s.cfg

\* the call failed at kdf_iter and left the cipher it had set before
C22_Witness ==
    /\ Finished
    /\ call.result = "FailedToConfigure"
    /\ call.failed = "kdf_iter"
    /\ call.intxn0 = FALSE
    /\ hcfg[call.h]["cipher"] = "aes256cbc"
    /\ hcfg[call.h] # NoCfg
    /\ Cardinality(Taken) >= 2

\* the call failed at the canary and left the key it had set
C22_WitnessWrongKey ==
    /\ Finished
    /\ call.result = "NotADB"
    /\ hkey[call.h] # NoKey
    /\ hcfg[call.h] # NoCfg

==========================================================================
